---- MODULE Spec2Model ----
(***************************************************************************)
(* Model of homeassistant/components/telegram_bot/webhooks.py:             *)
(*   async_setup_platform, PushBot (register_webhook, _try_to_set_webhook, *)
(*   deregister_webhook) and PushBotView.post.                             *)
(*                                                                         *)
(* Strings whose content the code inspects (URLs) are sequences of         *)
(* one-character strings, so that str.startswith and concatenation are     *)
(* computed and not assumed.                                               *)
(***************************************************************************)
EXTENDS Integers, Sequences, FiniteSets, TLC

VARIABLES
    conf_url,          \* config.get(CONF_URL): a URL, or empty when not set
    trusted_networks,  \* config[CONF_TRUSTED_NETWORKS]
    pc,                \* position of the running coroutine
    webhook_url,       \* PushBot.webhook_url
    retry_num,         \* local of _try_to_set_webhook
    reg_result,        \* value register_webhook handed to its caller
    setup_result,      \* outcome of async_setup_platform
    stop_listener,     \* hass.bus holds the once-listener for the stop event
    view_registered,   \* hass.http holds the PushBotView
    stops,             \* stop events the host has fired
    remote_url,        \* the provider's registered webhook URL
    calls,             \* provider calls issued so far, in order
    reg_calls,         \* register_webhook invocations started
    marks,             \* index into calls at which each invocation started
    reg_results,       \* what each finished invocation returned
    nreq,              \* requests the view has handled
    last,              \* the last request and what post did with it
    dispatched         \* updates handed to dispatcher.process_update, in order

vars == <<conf_url, trusted_networks, pc, webhook_url, retry_num, reg_result,
          setup_result, stop_listener, view_registered, stops, remote_url,
          calls, reg_calls, marks, reg_results, nreq, last, dispatched>>

configVars == <<conf_url, trusted_networks>>
viewVars   == <<nreq, last, dispatched>>
harnessVars == <<reg_calls, marks, reg_results>>

-----------------------------------------------------------------------------
(* Bounds of the model *)

MaxStops == 2          \* stop notifications the host may deliver
MaxRegisterCalls == 2  \* register_webhook invocations in the reconcile harness
MaxRequests == 2       \* requests handled by the view
AddrBits == 2          \* width of a modelled IP address (both versions)

-----------------------------------------------------------------------------
(* Strings *)

Https == <<"h", "t", "t", "p", "s">>

TELEGRAM_WEBHOOK_URL ==
    <<"/", "a", "p", "i", "/", "t", "e", "l", "e", "g", "r", "a", "m", "_",
      "w", "e", "b", "h", "o", "o", "k", "s">>

\* str.startswith
StartsWith(s, p) == Len(s) >= Len(p) /\ SubSeq(s, 1, Len(p)) = p

\* The scheme of a URL: what precedes the first ":" (empty when there is none).
Scheme(s) ==
    IF \E i \in 1..Len(s) : s[i] = ":"
    THEN LET i == CHOOSE i \in 1..Len(s) :
                      s[i] = ":" /\ \A j \in 1..(i - 1) : s[j] # ":"
         IN  SubSeq(s, 1, i - 1)
    ELSE <<>>

\* Values of the CONF_URL option: an https URL, a plain http URL, another
\* scheme, and a scheme of which "https" is only a prefix.
UrlHttps  == <<"h", "t", "t", "p", "s", ":", "/", "/", "h">>
UrlHttp   == <<"h", "t", "t", "p", ":", "/", "/", "h">>
UrlFtp    == <<"f", "t", "p", ":", "/", "/", "h">>
UrlHttpsx == <<"h", "t", "t", "p", "s", "x", ":", "/", "/", "h">>
NotSet    == <<>>
ConfUrls  == {NotSet, UrlHttps, UrlHttp, UrlFtp, UrlHttpsx}

\* helpers.network.get_url(hass, require_ssl=True, allow_internal=False)
ExternalUrl == <<"h", "t", "t", "p", "s", ":", "/", "/", "e">>
get_url == ExternalUrl

\* PushBot.__init__: base_url and webhook_url
BaseUrl(cu) == IF cu # NotSet THEN cu ELSE get_url
WebhookUrl(cu) == BaseUrl(cu) \o TELEGRAM_WEBHOOK_URL

\* What the provider may hold before setup: no registration, a URL registered
\* by an earlier run of some other installation, or one of ours.
OtherUrl == <<"h", "t", "t", "p", "s", ":", "/", "/", "o">>
NoUrl == <<>>
RemoteUrls == {NoUrl, OtherUrl} \cup {WebhookUrl(cu) : cu \in ConfUrls}

-----------------------------------------------------------------------------
(* Addresses and networks (ipaddress module), on AddrBits-bit addresses *)

RECURSIVE Pow2(_)
Pow2(n) == IF n = 0 THEN 1 ELSE 2 * Pow2(n - 1)

\* Bitwise and of two naturals below 2^w.
RECURSIVE BitAnd(_, _, _)
BitAnd(a, b, w) ==
    IF w = 0 THEN 0
    ELSE 2 * BitAnd(a \div 2, b \div 2, w - 1) + (a % 2) * (b % 2)

Versions == {4, 6}
Addresses == [version : Versions, ip : 0..(Pow2(AddrBits) - 1)]

\* netmask of a /p network
Netmask(p) == Pow2(AddrBits) - Pow2(AddrBits - p)

\* ip_network objects: the network address has no host bit set.
Networks ==
    {n \in [version : Versions, network_address : 0..(Pow2(AddrBits) - 1),
            prefixlen : 0..AddrBits] :
        BitAnd(n.network_address, Netmask(n.prefixlen), AddrBits)
            = n.network_address}

\* Configured lists of trusted networks: none, one network of either version,
\* two IPv4 networks, or an IPv4 network beside the lower half of IPv6.
V4Networks == {n \in Networks : n.version = 4}
V6LowerHalf == [version |-> 6, network_address |-> 0, prefixlen |-> 1]
TrustedSets ==
    {{}} \cup {{n} : n \in Networks}
         \cup {{n, m} : n \in V4Networks, m \in V4Networks \cup {V6LowerHalf}}

\* Variant: the IP version of address and network is not compared
InNet_IgnoresVersion(a, net) ==
    BitAnd(a.ip, Netmask(net.prefixlen), AddrBits) = net.network_address

\* `real_ip in net` (_BaseNetwork.__contains__)
InNet(a, net) ==
    /\ a.version = net.version
    /\ BitAnd(a.ip, Netmask(net.prefixlen), AddrBits) = net.network_address

\* post, line 118: any(real_ip in net for net in self.trusted_networks)
IsAllowed(a, nets) == \E net \in nets : InNet(a, net)

-----------------------------------------------------------------------------
(* The provider (telegram.Bot) as seen through its three calls *)

Call(op, url, outcome) == [op |-> op, url |-> url, outcome |-> outcome]

GetInfoOutcomes == {"status", "none", "raise"}   \* WebhookInfo, None, exception
SetOutcomes     == {"true", "false", "timeout", "raise"}
DeleteOutcomes  == {"true", "false", "raise"}

\* Number of calls of kind op in a log
RECURSIVE CountOp(_, _)
CountOp(log, op) ==
    IF log = <<>> THEN 0
    ELSE (IF Head(log).op = op THEN 1 ELSE 0) + CountOp(Tail(log), op)

-----------------------------------------------------------------------------
(* async_setup_platform and PushBot *)

\* _try_to_set_webhook, line 62: while retry_num < 3
MaxRetries == 3

\* async_setup_platform, line 28
HttpsCheck(url) == StartsWith(url, Https)

\* Variant: the fetched URL is not compared with the desired one
NeedsSet_Always(status, url) == status # "none"

\* register_webhook, line 86
NeedsSet(status, url) == status # "none" /\ url # webhook_url

\* Variant: the loop has no bound (while True)
LoopContinues_Always(n) == TRUE

\* Variant: the loop admits one pass too many
LoopContinues_OffByOne(n) == n <= MaxRetries

\* _try_to_set_webhook, line 62
LoopContinues(n) == n < MaxRetries

\* A caller enters register_webhook (line 69)
EnterRegister ==
    /\ pc' = "get_webhook_info"
    /\ reg_calls' = reg_calls + 1
    /\ marks' = Append(marks, Len(calls))

\* register_webhook hands r to its caller (a value, or "raised")
Return(r) ==
    /\ pc' = "returned"
    /\ reg_result' = r
    /\ reg_results' = Append(reg_results, r)

\* Variant: the stop listener is installed before the webhook is registered
SetupStart_ListensFirst ==
    /\ pc = "init"
    /\ webhook_url' = WebhookUrl(conf_url)
    /\ stop_listener' = TRUE
    /\ IF HttpsCheck(webhook_url')
       THEN /\ EnterRegister
            /\ UNCHANGED setup_result
       ELSE /\ pc' = "done"
            /\ setup_result' = "False"
            /\ UNCHANGED <<reg_calls, marks>>
    /\ UNCHANGED <<configVars, retry_num, reg_result,
                   view_registered, stops, remote_url, calls, reg_results,
                   viewVars>>

\* async_setup_platform, lines 26-32: build the PushBot, check the URL, and
\* start register_webhook.
SetupStart ==
    /\ pc = "init"
    /\ webhook_url' = WebhookUrl(conf_url)
    /\ IF HttpsCheck(webhook_url')
       THEN /\ EnterRegister
            /\ UNCHANGED setup_result
       ELSE /\ pc' = "done"
            /\ setup_result' = "False"
            /\ UNCHANGED <<reg_calls, marks>>
    /\ UNCHANGED <<configVars, retry_num, reg_result, stop_listener,
                   view_registered, stops, remote_url, calls, reg_results,
                   viewVars>>

\* Variant: a status fetch that raised is made again
GetWebhookInfo_Retries ==
    /\ pc = "get_webhook_info"
    /\ \E o \in GetInfoOutcomes :
        /\ calls' = Append(calls, Call("get_webhook_info",
                                       IF o = "status" THEN remote_url ELSE NoUrl, o))
        /\ IF o = "raise"
           THEN UNCHANGED <<pc, reg_result, reg_results, retry_num>>
           ELSE IF NeedsSet(o, remote_url)
                THEN /\ pc' = "set_webhook"
                     /\ retry_num' = 0
                     /\ UNCHANGED <<reg_result, reg_results>>
                ELSE Return("True") /\ UNCHANGED retry_num
    /\ UNCHANGED <<configVars, webhook_url, setup_result, stop_listener,
                   view_registered, stops, remote_url, reg_calls, marks,
                   viewVars>>

\* register_webhook, lines 71-86 (and 94 when no set is needed)
GetWebhookInfo ==
    /\ pc = "get_webhook_info"
    /\ \E o \in GetInfoOutcomes :
        /\ calls' = Append(calls, Call("get_webhook_info",
                                       IF o = "status" THEN remote_url ELSE NoUrl, o))
        /\ IF o = "raise"
           THEN Return("raised") /\ UNCHANGED retry_num
           ELSE IF NeedsSet(o, remote_url)
                THEN /\ pc' = "set_webhook"
                     /\ retry_num' = 0
                     /\ UNCHANGED <<reg_result, reg_results>>
                ELSE Return("True") /\ UNCHANGED retry_num
    /\ UNCHANGED <<configVars, webhook_url, setup_result, stop_listener,
                   view_registered, stops, remote_url, reg_calls, marks,
                   viewVars>>

\* Variant: every exception is retried, not only TimedOut
IsTransient_AnyException(o) == o \in {"timeout", "raise"}

\* _try_to_set_webhook, line 65: except TimedOut
IsTransient(o) == o = "timeout"

\* What register_webhook returns for the outcome of a set_webhook call that
\* was not caught: lines 88-94 for a returned value, propagation otherwise.
ResultOf(o) ==
    CASE o = "true"  -> "True"
      [] o = "false" -> "False"
      [] OTHER       -> "raised"

\* One pass of the loop of _try_to_set_webhook (lines 62-67), and, when the
\* function is left, lines 88-94 of register_webhook.
TrySetWebhook ==
    /\ pc = "set_webhook"
    /\ LoopContinues(retry_num)
    /\ \E o \in SetOutcomes :
        /\ calls' = Append(calls, Call("set_webhook", webhook_url, o))
        /\ remote_url' = IF o = "true" THEN webhook_url ELSE remote_url
        /\ IF IsTransient(o)
           THEN /\ retry_num' = retry_num + 1
                /\ IF LoopContinues(retry_num')
                   THEN UNCHANGED <<pc, reg_result, reg_results>>
                   ELSE Return("False")
           ELSE Return(ResultOf(o)) /\ UNCHANGED retry_num
    /\ UNCHANGED <<configVars, webhook_url, setup_result, stop_listener,
                   view_registered, stops, reg_calls, marks, viewVars>>

\* Variant: the view is registered whatever register_webhook returned
SetupAfterRegister_IgnoresResult ==
    /\ pc = "returned"
    /\ pc' = "done"
    /\ stop_listener' = TRUE
    /\ view_registered' = TRUE
    /\ setup_result' = IF reg_result = "raised" THEN "raised" ELSE "True"
    /\ UNCHANGED <<configVars, webhook_url, retry_num, reg_result, stops,
                   remote_url, calls, harnessVars, viewVars>>

\* hass.http.register_view (line 37): the host attaches the view or raises
RegisterViewOutcomes == {"ok", "raise"}

\* async_setup_platform, lines 32-40, once register_webhook has returned.
\* Lines 36-40 are not guarded: when register_view raises, the stop listener
\* of line 36 stays and the exception leaves async_setup_platform.
SetupAfterRegister ==
    /\ pc = "returned"
    /\ pc' = "done"
    /\ IF reg_result = "True"
       THEN \E v \in RegisterViewOutcomes :
            /\ stop_listener' = TRUE
            /\ view_registered' = (v = "ok")
            /\ setup_result' = IF v = "ok" THEN "True" ELSE "raised"
       ELSE /\ setup_result' = reg_result
            /\ UNCHANGED <<stop_listener, view_registered>>
    /\ UNCHANGED <<configVars, webhook_url, retry_num, reg_result, stops,
                   remote_url, calls, harnessVars, viewVars>>

\* hass.bus.async_listen_once: the listener is removed when the event fires
ListenerAfterEvent == FALSE

\* Variant: a delete_webhook that did not succeed is tried once more
deregister_webhook_Retries(o) ==
    /\ calls' = IF o = "true"
                THEN Append(calls, Call("delete_webhook", NoUrl, o))
                ELSE calls \o <<Call("delete_webhook", NoUrl, o),
                                Call("delete_webhook", NoUrl, o)>>
    /\ remote_url' = IF o = "true" THEN NoUrl ELSE remote_url

\* deregister_webhook, lines 96-99
deregister_webhook(o) ==
    /\ calls' = Append(calls, Call("delete_webhook", NoUrl, o))
    /\ remote_url' = IF o = "true" THEN NoUrl ELSE remote_url

\* deregister_webhook, line 99: what `return self.bot.delete_webhook()` hands
\* to the caller, the call's value or its exception
DeregisterResult(o) ==
    CASE o = "true"  -> "True"
      [] o = "false" -> "False"
      [] OTHER       -> "raised"

\* The host fires EVENT_HOMEASSISTANT_STOP; each event is recorded with
\* whether setup had succeeded and what the listener, if called, handed back
StopEvent ==
    /\ Len(stops) < MaxStops
    /\ IF stop_listener
       THEN /\ \E o \in DeleteOutcomes :
                 /\ deregister_webhook(o)
                 /\ stops' = Append(stops,
                                    [after_success |-> (setup_result = "True"),
                                     dereg |-> DeregisterResult(o)])
            /\ stop_listener' = ListenerAfterEvent
       ELSE /\ stops' = Append(stops,
                               [after_success |-> (setup_result = "True"),
                                dereg |-> "not_called"])
            /\ UNCHANGED <<calls, remote_url, stop_listener>>
    /\ UNCHANGED <<configVars, pc, webhook_url, retry_num, reg_result,
                   setup_result, view_registered, harnessVars, viewVars>>

NoRequest ==
    [addr |-> [version |-> 4, ip |-> 0], body |-> [kind |-> "none", update_id |-> 0],
     ret |-> [kind |-> "none", message |-> "", status_code |-> 0],
     response |-> [status |-> 0, payload |-> ""], steps |-> <<>>]

\* Trusted networks used where the lifecycle only passes them on
LifecycleTrustedSets ==
    {{}} \cup {{n} : n \in {m \in Networks : m.prefixlen = 0}}

Init ==
    /\ conf_url \in ConfUrls
    /\ trusted_networks \in LifecycleTrustedSets
    /\ pc = "init"
    /\ webhook_url = NoUrl
    /\ retry_num = 0
    /\ reg_result = "pending"
    /\ setup_result = "pending"
    /\ stop_listener = FALSE
    /\ view_registered = FALSE
    /\ stops = <<>>
    /\ remote_url \in RemoteUrls
    /\ calls = <<>>
    /\ reg_calls = 0
    /\ marks = <<>>
    /\ reg_results = <<>>
    /\ nreq = 0
    /\ last = NoRequest
    /\ dispatched = <<>>

Next ==
    \/ SetupStart
    \/ GetWebhookInfo
    \/ TrySetWebhook
    \/ SetupAfterRegister
    \/ StopEvent

Spec == Init /\ [][Next]_vars

\* The steps of async_setup_platform. The coroutine is awaited by the host and
\* every provider call returns, times out (timeout=5, line 64) or raises, so a
\* step that can be taken is taken.
SetupStep ==
    \/ SetupStart
    \/ GetWebhookInfo
    \/ TrySetWebhook
    \/ SetupAfterRegister

SpecLive == Init /\ [][Next]_vars /\ WF_vars(SetupStep)

-----------------------------------------------------------------------------
(* register_webhook invoked repeatedly on one PushBot *)

\* A caller invokes register_webhook (again) on the constructed PushBot
CallRegister ==
    /\ pc \in {"idle", "returned"}
    /\ reg_calls < MaxRegisterCalls
    /\ EnterRegister
    /\ UNCHANGED <<configVars, webhook_url, retry_num, reg_result, setup_result,
                   stop_listener, view_registered, stops, remote_url, calls,
                   reg_results, viewVars>>

\* A PushBot after __init__, no call made yet
InitReconcile ==
    /\ conf_url \in ConfUrls
    /\ trusted_networks \in LifecycleTrustedSets
    /\ pc = "idle"
    /\ webhook_url = WebhookUrl(conf_url)
    /\ retry_num = 0
    /\ reg_result = "pending"
    /\ setup_result = "pending"
    /\ stop_listener = FALSE
    /\ view_registered = FALSE
    /\ stops = <<>>
    /\ remote_url \in RemoteUrls
    /\ calls = <<>>
    /\ reg_calls = 0
    /\ marks = <<>>
    /\ reg_results = <<>>
    /\ nreq = 0
    /\ last = NoRequest
    /\ dispatched = <<>>

NextReconcile ==
    \/ CallRegister
    \/ GetWebhookInfo
    \/ TrySetWebhook

SpecReconcile == InitReconcile /\ [][NextReconcile]_vars

-----------------------------------------------------------------------------
(* PushBotView.post *)

UpdateIds == {1, 2}

\* Request bodies: text that is not JSON, JSON that is not an update of the
\* provider's schema, and a well-formed update.
Bodies ==
    {[kind |-> "malformed", update_id |-> 0], [kind |-> "mismatch", update_id |-> 0]}
        \cup {[kind |-> "update", update_id |-> i] : i \in UpdateIds}

\* HomeAssistantView.json_message(message, status_code)
json_message(message, status_code) ==
    [kind |-> "json_message", message |-> message, status_code |-> status_code]
ReturnNone == [kind |-> "None", message |-> "", status_code |-> 0]
Raised     == [kind |-> "raised", message |-> "", status_code |-> 0]

\* What the host's view wrapper sends for a handler's return value: the JSON
\* message with its status, an empty 200 for None, a 500 for an exception.
HostResponse(ret) ==
    CASE ret.kind = "json_message" ->
            [status |-> ret.status_code, payload |-> ret.message]
      [] ret.kind = "None" -> [status |-> 200, payload |-> ""]
      [] OTHER -> [status |-> 500, payload |-> "Internal Server Error"]

\* An Update is <<update_id>>; None is the empty tuple.
NoneUpdate == <<>>

\* Update.de_json on parsed JSON: an Update for a well-formed body; for JSON
\* of another shape the library either yields None or raises.
DeJsonOutcomes(body) ==
    IF body.kind = "update" THEN {"update"} ELSE {"None", "raise"}

\* Variant: the handler answers without handing the update on
PostTrusted_SkipsDispatch(body, dj) ==
    IF body.kind = "malformed"
    THEN [ret |-> json_message("Invalid JSON", 400),
          steps |-> <<"ip_address", "json">>, forward |-> <<>>]
    ELSE IF dj = "raise"
    THEN [ret |-> Raised,
          steps |-> <<"ip_address", "json", "de_json">>, forward |-> <<>>]
    ELSE [ret |-> ReturnNone,
          steps |-> <<"ip_address", "json", "de_json", "return">>,
          forward |-> <<>>]

\* post, lines 122-131: the caller has passed the gate
PostTrusted(body, dj) ==
    IF body.kind = "malformed"
    THEN [ret |-> json_message("Invalid JSON", 400),
          steps |-> <<"ip_address", "json">>, forward |-> <<>>]
    ELSE IF dj = "raise"
    THEN [ret |-> Raised,
          steps |-> <<"ip_address", "json", "de_json">>, forward |-> <<>>]
    ELSE [ret |-> ReturnNone,
          steps |-> <<"ip_address", "json", "de_json", "process_update", "return">>,
          forward |-> << IF dj = "update" THEN <<body.update_id>> ELSE NoneUpdate >>]

\* Variant: once a caller was refused, the next request is refused as well
PostResult_RemembersDenial(addr, nets, body, dj) ==
    IF ~IsAllowed(addr, nets) \/ last.ret = json_message("Access denied", 401)
    THEN [ret |-> json_message("Access denied", 401),
          steps |-> <<"ip_address">>, forward |-> <<>>]
    ELSE PostTrusted(body, dj)

\* Variant: the body is read and handled before the caller is checked
PostResult_ParsesBeforeGate(addr, nets, body, dj) ==
    IF body.kind = "malformed" \/ dj = "raise" \/ IsAllowed(addr, nets)
    THEN PostTrusted(body, dj)
    ELSE [ret |-> json_message("Access denied", 401),
          steps |-> <<"ip_address", "json", "de_json">>, forward |-> <<>>]

\* post, lines 115-131
PostResult(addr, nets, body, dj) ==
    IF ~IsAllowed(addr, nets)
    THEN [ret |-> json_message("Access denied", 401),
          steps |-> <<"ip_address">>, forward |-> <<>>]
    ELSE PostTrusted(body, dj)

\* One request handled by the registered view
Post ==
    /\ view_registered
    /\ nreq < MaxRequests
    /\ \E addr \in Addresses, body \in Bodies :
        \E dj \in DeJsonOutcomes(body) :
            LET r == PostResult(addr, trusted_networks, body, dj) IN
            /\ last' = [addr |-> addr, body |-> body, ret |-> r.ret,
                        response |-> HostResponse(r.ret), steps |-> r.steps]
            /\ dispatched' = dispatched \o r.forward
    /\ nreq' = nreq + 1
    /\ UNCHANGED <<configVars, pc, webhook_url, retry_num, reg_result,
                   setup_result, stop_listener, view_registered, stops,
                   remote_url, calls, harnessVars>>

\* The state after a setup that found the webhook already registered
InitView ==
    /\ conf_url = UrlHttps
    /\ trusted_networks \in TrustedSets
    /\ pc = "done"
    /\ webhook_url = WebhookUrl(conf_url)
    /\ retry_num = 0
    /\ reg_result = "True"
    /\ setup_result = "True"
    /\ stop_listener = TRUE
    /\ view_registered = TRUE
    /\ stops = <<>>
    /\ remote_url = webhook_url
    /\ calls = <<Call("get_webhook_info", webhook_url, "status")>>
    /\ reg_calls = 1
    /\ marks = <<0>>
    /\ reg_results = <<"True">>
    /\ nreq = 0
    /\ last = NoRequest
    /\ dispatched = <<>>

NextView == Post

SpecView == InitView /\ [][NextView]_vars

-----------------------------------------------------------------------------
(* Properties of setup and reconciliation *)

\* Outcomes of the set_webhook calls, in order
SetCalls == SelectSeq(calls, LAMBDA c : c.op = "set_webhook")
SetCallOutcomes == [i \in 1..Len(SetCalls) |-> SetCalls[i].outcome]

\* The check of line 28 was made and rejected the URL
HttpsCheckFailed == pc # "init" /\ ~StartsWith(webhook_url, Https)

\* The status fetch raised
FetchStatusFailed ==
    \E i \in 1..Len(calls) :
        calls[i].op = "get_webhook_info" /\ calls[i].outcome = "raise"

\* Setting the webhook failed: an attempt returned a non-success result or
\* raised, or three attempts timed out
SetWebhookFailed ==
    \/ \E i \in 1..Len(SetCalls) : SetCalls[i].outcome \in {"false", "raise"}
    \/ Cardinality({i \in 1..Len(SetCalls) : SetCalls[i].outcome = "timeout"}) >= 3

\* C1: fail closed. The view is registered only when the check of the URL
\* passed and register_webhook returned success; once the URL check, the
\* status fetch or the setting of the webhook has failed, the view is not
\* registered and setup has not reported success.
C1_FailClosed ==
    /\ view_registered =>
          /\ pc # "init" /\ StartsWith(webhook_url, Https)
          /\ reg_result = "True"
    /\ (HttpsCheckFailed \/ FetchStatusFailed \/ SetWebhookFailed) =>
          /\ ~view_registered
          /\ setup_result # "True"

\* C1 witness: setup ended after an attempt to set the webhook was refused
C1_Witness ==
    /\ pc = "done"
    /\ SetCallOutcomes = <<"timeout", "false">>
    /\ setup_result = "False"
    /\ ~view_registered

\* C2: when the scheme of the webhook URL is not https, setup has failed
\* without a single provider call, and no set_webhook call carries a URL
\* whose scheme is not https.
C2_NoCallUnlessHttps ==
    /\ (pc # "init" /\ Scheme(webhook_url) # Https) =>
          /\ calls = <<>>
          /\ setup_result # "True"
          /\ ~view_registered
    /\ \A i \in 1..Len(SetCalls) : Scheme(SetCalls[i].url) = Https

\* C3: set_webhook is attempted at most three times in a reconcile; two
\* timeouts and then a success make register_webhook return True after exactly
\* three attempts; three timeouts make it return False after exactly three.
C3_RetryBound ==
    /\ Len(SetCalls) <= 3
    /\ SetCallOutcomes = <<"timeout", "timeout", "true">> =>
          /\ reg_result = "True"
          /\ pc \in {"returned", "done"}
    /\ SetCallOutcomes = <<"timeout", "timeout", "timeout">> =>
          /\ reg_result = "False"
          /\ pc \in {"returned", "done"}
          /\ setup_result # "True"

\* C3 witness: setup ended after three timeouts
C3_Witness ==
    /\ pc = "done"
    /\ SetCallOutcomes = <<"timeout", "timeout", "timeout">>
    /\ setup_result = "False"

\* C4: an attempt to set the webhook that raises something other than TimedOut,
\* or returns a non-success result, is the last attempt, and setup does not
\* succeed after it.
C4_NonTimeoutAborts ==
    \A i \in 1..Len(SetCalls) :
        SetCalls[i].outcome \in {"false", "raise"} =>
            /\ i = Len(SetCalls)
            /\ pc \in {"returned", "done"}
            /\ reg_result # "True"
            /\ setup_result # "True"
            /\ ~view_registered

\* C4 witness: the first attempt raised and setup ended with one attempt made
C4_Witness ==
    /\ pc = "done"
    /\ SetCallOutcomes = <<"raise">>
    /\ setup_result = "raised"

-----------------------------------------------------------------------------
(* Properties of repeated reconciliation *)

\* The provider calls made by the k-th invocation of register_webhook
Segment(k) ==
    SubSeq(calls, marks[k] + 1,
           IF k < Len(marks) THEN marks[k + 1] ELSE Len(calls))

Mutating(c) == c.op \in {"set_webhook", "delete_webhook"}
MutatingCalls(seg) == Cardinality({i \in 1..Len(seg) : Mutating(seg[i])})
SuccessfulMutations(seg) ==
    Cardinality({i \in 1..Len(seg) : Mutating(seg[i]) /\ seg[i].outcome = "true"})

\* The invocation fetched a status whose URL is already the desired one
FoundMatch(seg) ==
    /\ Len(seg) >= 1
    /\ seg[1].op = "get_webhook_info"
    /\ seg[1].outcome = "status"
    /\ seg[1].url = webhook_url

\* C5: an invocation of register_webhook that finds the desired URL already
\* registered returns True and makes no mutating provider call; two
\* invocations in a row make at most one successful mutating call between
\* them, and when the first made it the second makes no mutating call.
C5_Idempotent ==
    \A k \in 1..Len(marks) :
        /\ FoundMatch(Segment(k)) =>
              /\ k <= Len(reg_results)
              /\ reg_results[k] = "True"
              /\ MutatingCalls(Segment(k)) = 0
        /\ k < Len(marks) =>
              /\ SuccessfulMutations(Segment(k))
                    + SuccessfulMutations(Segment(k + 1)) <= 1
              /\ SuccessfulMutations(Segment(k)) = 1 =>
                    MutatingCalls(Segment(k + 1)) = 0

\* C5 witness: the first invocation set the webhook after a timeout, the
\* second fetched the status, found the URL in place and returned True
C5_Witness ==
    /\ Len(reg_results) = 2
    /\ reg_results = <<"True", "True">>
    /\ Len(Segment(1)) = 3
    /\ SuccessfulMutations(Segment(1)) = 1
    /\ FoundMatch(Segment(2))
    /\ Len(Segment(2)) = 1

-----------------------------------------------------------------------------
(* Properties of the view *)

\* Address a lies in the range of network n: same IP version, and between the
\* network's first and last address
Belongs(a, n) ==
    /\ a.version = n.version
    /\ n.network_address <= a.ip
    /\ a.ip <= n.network_address + Pow2(AddrBits - n.prefixlen) - 1

Trusted(a) == \E n \in trusted_networks : Belongs(a, n)

Denied == [status |-> 401, payload |-> "Access denied"]

StepsOf(r) == {r.steps[i] : i \in 1..Len(r.steps)}

\* C6: a request passes the gate exactly when its caller's address lies in at
\* least one trusted network; with no trusted network every request is denied.
C6_TrustGate ==
    nreq >= 1 =>
        /\ (last.response # Denied) <=> Trusted(last.addr)
        /\ trusted_networks = {} => last.response = Denied

\* C6 witness: an IPv6 caller admitted by the second of two networks
C6_Witness ==
    /\ nreq >= 1
    /\ Cardinality(trusted_networks) = 2
    /\ last.addr.version = 6
    /\ last.response # Denied

\* C7: a request from an address in no trusted network is answered 401
\* "Access denied" without its body being read, and nothing reaches the
\* dispatcher, whatever the body.
C7_DeniedUntouched ==
    [][(nreq' = nreq + 1 /\ ~Trusted(last'.addr)) =>
          /\ last'.response = Denied
          /\ StepsOf(last') \cap {"json", "de_json", "process_update"} = {}
          /\ dispatched' = dispatched]_vars

\* C7 witness: a well-formed update from an untrusted caller was refused
C7_Witness ==
    /\ nreq >= 1
    /\ trusted_networks # {}
    /\ ~Trusted(last.addr)
    /\ last.body.kind = "update"
    /\ last.response = Denied
    /\ dispatched = <<>>

\* C8: a request from a trusted address whose body is not JSON, or is JSON
\* that is not an update of the provider's schema, is answered 400 "Invalid
\* JSON" and nothing is handed to the dispatcher.
C8_UnparsableIs400 ==
    (nreq >= 1 /\ Trusted(last.addr) /\ last.body.kind \in {"malformed", "mismatch"}) =>
        /\ last.response = [status |-> 400, payload |-> "Invalid JSON"]
        /\ "process_update" \notin StepsOf(last)

\* C9: a well-formed update from a trusted address is handed to the dispatcher
\* exactly once, as the Update of that body, before the handler returns, and
\* the handler returns None, which is sent as an empty 200.
C9_DispatchedOnce ==
    [][(nreq' = nreq + 1 /\ Trusted(last'.addr) /\ last'.body.kind = "update") =>
          /\ dispatched' = Append(dispatched, <<last'.body.update_id>>)
          /\ last'.ret = ReturnNone
          /\ last'.response = [status |-> 200, payload |-> ""]
          /\ \E i \in 1..Len(last'.steps) :
                /\ last'.steps[i] = "process_update"
                /\ \A j \in 1..Len(last'.steps) :
                      /\ last'.steps[j] = "process_update" => j = i
                      /\ last'.steps[j] = "return" => i < j]_vars

\* C9 witness: two updates from trusted callers reached the dispatcher in order
C9_Witness ==
    /\ nreq = 2
    /\ Trusted(last.addr)
    /\ dispatched = << <<1>>, <<2>> >>
    /\ last.response = [status |-> 200, payload |-> ""]

-----------------------------------------------------------------------------
(* Properties of shutdown *)

\* C10: once a stop event has been delivered after a successful setup,
\* exactly one delete_webhook call has been made, whatever its outcome and
\* however many stop events were delivered; there is never more than one.
C10_OneDeregister ==
    /\ CountOp(calls, "delete_webhook") <= 1
    /\ (\E i \in 1..Len(stops) : stops[i].after_success) =>
          CountOp(calls, "delete_webhook") = 1

\* C10 witness: two stop events after a successful setup, the deregistration
\* having raised
C10_Witness ==
    /\ Len(stops) = 2
    /\ stops[1].after_success
    /\ CountOp(calls, "delete_webhook") = 1
    /\ calls[Len(calls)].op = "delete_webhook"
    /\ calls[Len(calls)].outcome = "raise"


\* C11: a failing delete_webhook is absorbed inside deregister_webhook: the
\* stop listener called after a successful setup hands no exception to its
\* caller.
C11_DeregisterAbsorbs ==
    \A i \in 1..Len(stops) :
        stops[i].after_success => stops[i].dereg # "raised"

\* C12: setup is all or nothing: when setup has ended without the view
\* attached although register_webhook had returned success with the desired
\* URL registered at the provider, a delete_webhook call has been made, so
\* that no run ends with the webhook registered and no view attached.
C12_AllOrNothing ==
    (pc = "done" /\ reg_result = "True" /\ ~view_registered
        /\ \E i \in 1..Len(calls) :
              \/ calls[i].op = "set_webhook" /\ calls[i].outcome = "true"
              \/ /\ calls[i].op = "get_webhook_info"
                 /\ calls[i].outcome = "status"
                 /\ calls[i].url = webhook_url) =>
        CountOp(calls, "delete_webhook") >= 1


\* C13: a status fetch that raises or yields no status is fatal: after it
\* register_webhook has not returned success, no set_webhook call was made
\* and the view is not registered.
C13_FetchFailureFatal ==
    (\E i \in 1..Len(calls) :
        calls[i].op = "get_webhook_info" /\ calls[i].outcome \in {"raise", "none"}) =>
        /\ reg_result # "True"
        /\ SetCalls = <<>>
        /\ ~view_registered

\* C15: in a setup run that passed the URL check the status is fetched
\* exactly once, before every set_webhook attempt, and never again; no call
\* other than set_webhook is made twice.
C15_FetchOnce ==
    /\ CountOp(calls, "get_webhook_info") <= 1
    /\ CountOp(calls, "delete_webhook") <= 1
    /\ (StartsWith(webhook_url, Https) /\ pc \in {"set_webhook", "returned", "done"}) =>
          CountOp(calls, "get_webhook_info") = 1
    /\ \A i \in 1..Len(calls) :
          calls[i].op = "set_webhook" =>
              \E j \in 1..(i - 1) : calls[j].op = "get_webhook_info"

\* C15 witness: one fetch, then three attempts to set the webhook
C15_Witness ==
    /\ pc = "done"
    /\ CountOp(calls, "get_webhook_info") = 1
    /\ Len(SetCalls) = 3
    /\ calls[1].op = "get_webhook_info"

\* C16: when register_webhook has just returned success, the provider's
\* registered URL is the desired URL.
C16_SuccessMeansRegistered ==
    (pc = "returned" /\ reg_result = "True") => remote_url = webhook_url

\* C18: every delete_webhook call comes after all calls of a register_webhook
\* that returned success; the stop listener exists only after such a return,
\* and after a failed or aborted setup no delete_webhook call is made.
C18_DeleteOnlyAfterSuccess ==
    /\ stop_listener => (pc = "done" /\ reg_result = "True")
    /\ \A i \in 1..Len(calls) :
          calls[i].op = "delete_webhook" =>
              /\ reg_results = <<"True">>
              /\ pc = "done"
              /\ \A j \in 1..Len(calls) :
                    calls[j].op # "delete_webhook" => j < i
    /\ (pc = "done" /\ reg_result # "True") =>
          CountOp(calls, "delete_webhook") = 0

\* C18 witness: a stop event after a setup whose set_webhook was refused
\* made no provider call
C18_Witness ==
    /\ pc = "done"
    /\ setup_result = "False"
    /\ Len(stops) >= 1
    /\ SetCallOutcomes = <<"false">>
    /\ calls[Len(calls)].op = "set_webhook"


\* C14: requests are independent. Whatever was handled before, a request's
\* outcome follows from its caller address and its body alone: 401 for an
\* untrusted caller, 400 for a body that is not JSON, the update handed on and
\* an empty success for a well-formed update (for JSON of another shape, what
\* Update.de_json makes of it). The same request repeated gets the same answer,
\* and no request changes the trusted networks, the registration of the view
\* or what the dispatcher received earlier.
C14_RequestsIndependent ==
    [][nreq' = nreq + 1 =>
          LET a == last'.addr
              b == last'.body
          IN  /\ trusted_networks' = trusted_networks
              /\ view_registered' = view_registered
              /\ SubSeq(dispatched', 1, Len(dispatched)) = dispatched
              /\ ~Trusted(a) =>
                    last'.response = Denied /\ dispatched' = dispatched
              /\ (Trusted(a) /\ b.kind = "malformed") =>
                    /\ last'.response = [status |-> 400, payload |-> "Invalid JSON"]
                    /\ dispatched' = dispatched
              /\ (Trusted(a) /\ b.kind = "update") =>
                    /\ last'.response = [status |-> 200, payload |-> ""]
                    /\ dispatched' = Append(dispatched, <<b.update_id>>)
              /\ (Trusted(a) /\ b.kind = "mismatch") =>
                    \/ last'.response.status = 500 /\ dispatched' = dispatched
                    \/ /\ last'.response = [status |-> 200, payload |-> ""]
                       /\ dispatched' = Append(dispatched, NoneUpdate)
              /\ (nreq >= 1 /\ a = last.addr /\ b = last.body /\ b.kind # "mismatch") =>
                    /\ last'.response = last.response
                    /\ last'.steps = last.steps]_vars

\* C14 witness: the second request was handed on although the first was not
C14_Witness ==
    /\ nreq = 2
    /\ Trusted(last.addr)
    /\ last.body.kind = "update"
    /\ dispatched = << <<last.body.update_id>> >>

\* C17: reconciliation terminates. At most three set_webhook attempts are
\* ever made, and async_setup_platform reaches a final outcome: success, a
\* reported failure or a propagated error.
C17_Terminates ==
    /\ [](Len(SetCalls) <= 3)
    /\ <>(pc = "done" /\ setup_result \in {"True", "False", "raised"})

\* C17 witness: setup ended with a propagated error after two timeouts
C17_Witness ==
    /\ pc = "done"
    /\ SetCallOutcomes = <<"timeout", "timeout", "raise">>
    /\ setup_result = "raised"

====
